---- MODULE Spec2Model ----
(***************************************************************************)
(* Model of the Landing Zone Accelerator synthesis helpers:                *)
(*   - the ASEA TransitGateways importer                                   *)
(*     (lib/asea-resources/transit-gateways.ts),                           *)
(*   - addAcceleratorTags, includeStage and the create*Stack factories     *)
(*     (utils/stack-utils.ts).                                             *)
(* Synthesis is single threaded; each operation is one atomic action.      *)
(***************************************************************************)
EXTENDS Integers, Sequences, FiniteSets, TLC

(***************************************************************************)
(* Bounds of the model.                                                    *)
(***************************************************************************)
MaxResources == 2   \* resources listed in stackInfo.resources
MaxItems == 2       \* items of networkConfig.transitGateways
MaxConstructs == 3  \* constructs of the tree handed to addAcceleratorTags
MaxCalls == 2       \* factory calls made on one app

(***************************************************************************)
(* Generic helpers.                                                        *)
(***************************************************************************)
Range(s) == {s[i] : i \in 1..Len(s)}

SeqsUpTo(S, n) == UNION {[1..k -> S] : k \in 0..n}

RECURSIVE SeqCount(_, _)
SeqCount(s, x) ==
  IF s = <<>> THEN 0
  ELSE (IF Head(s) = x THEN 1 ELSE 0) + SeqCount(Tail(s), x)

(***************************************************************************)
(* transit-gateways.ts : TransitGateways importer                         *)
(***************************************************************************)
RESOURCE_TYPE_TRANSIT_GATEWAY == "AWS::EC2::TransitGateway"
ASEA_PHASE_NUMBER == 0

\* AseaResourceType.TRANSIT_GATEWAY and SsmResourceType.TGW
AseaResourceType_TRANSIT_GATEWAY == "TRANSIT_GATEWAY"
SsmResourceType_TGW == "/network/transitGateways/${0}/id"

\* Values the inputs are drawn from.
TgwNames == {"Main", "Edge"}
NoNameTag == ""
NameTags == TgwNames \cup {NoNameTag}
ResourceTypes == {RESOURCE_TYPE_TRANSIT_GATEWAY, "AWS::EC2::TransitGatewayRouteTable"}
Phases == {-1, 0, 1}
StackNames == {"Phase-SharedNetwork"}

\* The CfnTransitGateway properties of a resource of the included template
\* before the importer touches it.
TemplateTgwProps ==
  [amazonSideAsn |-> 65521,
   autoAcceptSharedAttachments |-> "enable",
   defaultRouteTableAssociation |-> "disable",
   defaultRouteTablePropagation |-> "enable",
   dnsSupport |-> "disable",
   vpnEcmpSupport |-> "enable"]

\* Declared TransitGatewayConfig items: two settings per name.
TgwItems ==
  {[name |-> n, asn |-> 64512,
    autoAcceptSharingAttachments |-> "enable",
    defaultRouteTableAssociation |-> "enable",
    defaultRouteTablePropagation |-> "enable",
    dnsSupport |-> "enable",
    vpnEcmpSupport |-> "enable"] : n \in TgwNames}
  \cup
  {[name |-> n, asn |-> 65000,
    autoAcceptSharingAttachments |-> "disable",
    defaultRouteTableAssociation |-> "disable",
    defaultRouteTablePropagation |-> "disable",
    dnsSupport |-> "disable",
    vpnEcmpSupport |-> "disable"] : n \in TgwNames}

\* stackInfo.resources: logical ids are the keys of one CloudFormation
\* template, hence distinct; here the id of the i-th listed resource is i.
ResourceLists ==
  UNION {
    {[i \in 1..k |->
        [logicalResourceId |-> i, resourceType |-> ty[i], nameTag |-> tg[i]]] :
       ty \in [1..k -> ResourceTypes], tg \in [1..k -> NameTags]}
    : k \in 0..MaxResources}

\* networkConfig.transitGateways is optional.
NetworkConfigs ==
  {[hasTransitGateways |-> FALSE, transitGateways |-> <<>>]}
  \cup
  {[hasTransitGateways |-> TRUE, transitGateways |-> s] : s \in SeqsUpTo(TgwItems, MaxItems)}

VARIABLES
  stackInfo,       \* props.stackInfo: phase, stackName, resources
  networkConfig,   \* props.networkConfig
  stackResources,  \* this.stack.getResource: logical id -> construct properties
  ssmParameters,   \* scope.addSsmParameter calls, in order
  aseaResources,   \* scope.addAseaResource calls, in order
  logs,            \* scope.addLogs calls, in order
  tgwInAsea,       \* the constructor's local tgwInAsea
  tgwPc            \* "new" before the constructor runs, "done" after

tgwVars ==
  <<stackInfo, networkConfig, stackResources, ssmParameters, aseaResources, logs,
    tgwInAsea, tgwPc>>

\* AseaResource.filterResourcesByType
filterResourcesByType(resources, type) ==
  SelectSeq(resources, LAMBDA r : r.resourceType = type)

\* AseaResource.findResourceByTag: the first resource whose Name tag is the
\* name, as a position in cfnResources; 0 stands for undefined.
findResourceByTag(cfnResources, name) ==
  LET hits == {i \in 1..Len(cfnResources) : cfnResources[i].nameTag = name}
  IN IF hits = {} THEN 0 ELSE CHOOSE i \in hits : \A j \in hits : i <= j

\* scope.getSsmPath(SsmResourceType.TGW, [name])
getSsmPath(resourceType, replacements) == <<resourceType, replacements>>

\* transitGateway.ref
Ref(logicalResourceId) == <<"Ref", logicalResourceId>>

\* Log lines.
NoHandleLog(stackName) ==
  [level |-> "INFO",
   message |-> <<"No ", RESOURCE_TYPE_TRANSIT_GATEWAY, "s to handle in stack ", stackName>>]

OrphanLog(logicalResourceId) ==
  [level |-> "INFO",
   message |-> <<"TGW ", logicalResourceId, " is in ASEA Cfn but not found in configuration">>]

\* Faulty variant of PatchTransitGateway: association and propagation are swapped and
\* dnsSupport is left as the template had it.
PatchTransitGateway_swapped(transitGateway, tgwItem) ==
  [transitGateway EXCEPT
     !.amazonSideAsn = tgwItem.asn,
     !.autoAcceptSharedAttachments = tgwItem.autoAcceptSharingAttachments,
     !.defaultRouteTableAssociation = tgwItem.defaultRouteTablePropagation,
     !.defaultRouteTablePropagation = tgwItem.defaultRouteTableAssociation,
     !.vpnEcmpSupport = tgwItem.vpnEcmpSupport]

\* The six property assignments of the loop body.
PatchTransitGateway(transitGateway, tgwItem) ==
  [transitGateway EXCEPT
     !.amazonSideAsn = tgwItem.asn,
     !.autoAcceptSharedAttachments = tgwItem.autoAcceptSharingAttachments,
     !.defaultRouteTableAssociation = tgwItem.defaultRouteTableAssociation,
     !.defaultRouteTablePropagation = tgwItem.defaultRouteTablePropagation,
     !.dnsSupport = tgwItem.dnsSupport,
     !.vpnEcmpSupport = tgwItem.vpnEcmpSupport]

\* What the loop body does to the scope for one matched resource.
RecordTgw(st, id, tgwItem) ==
  [st EXCEPT
     !.stackResources[id] = PatchTransitGateway(@, tgwItem),
     !.ssmParameters =
        Append(@, [parameterName |-> getSsmPath(SsmResourceType_TGW, <<tgwItem.name>>),
                   stringValue |-> Ref(id)]),
     !.aseaResources =
        Append(@, [type |-> AseaResourceType_TRANSIT_GATEWAY,
                   identifier |-> tgwItem.name]),
     !.tgwInAsea = Append(@, id)]

\* Faulty variant of HandleTgwItem: every resource carrying the Name tag is patched
\* and recorded (a filter where the code uses find).
RECURSIVE RecordAllTagged(_, _, _)
RecordAllTagged(st, resources, tgwItem) ==
  IF resources = <<>> THEN st
  ELSE RecordAllTagged(
         IF Head(resources).nameTag = tgwItem.name
         THEN RecordTgw(st, Head(resources).logicalResourceId, tgwItem) ELSE st,
         Tail(resources), tgwItem)

HandleTgwItem_allTagged(st, existingTransitGatewaysResources, tgwItem) ==
  RecordAllTagged(st, existingTransitGatewaysResources, tgwItem)

\* Faulty variant of HandleTgwItem: addAseaResource is called before the match is
\* tested, so an unmatched declared item is recorded too.
HandleTgwItem_recordsUnmatched(st, existingTransitGatewaysResources, tgwItem) ==
  LET pos == findResourceByTag(existingTransitGatewaysResources, tgwItem.name)
      rec == [type |-> AseaResourceType_TRANSIT_GATEWAY, identifier |-> tgwItem.name]
  IN IF pos = 0 THEN [st EXCEPT !.aseaResources = Append(@, rec)]
     ELSE RecordTgw(st, existingTransitGatewaysResources[pos].logicalResourceId, tgwItem)

\* One iteration of the loop over the declared transit gateways.
\* st carries the scope's state and the local tgwInAsea.
HandleTgwItem(st, existingTransitGatewaysResources, tgwItem) ==
  LET pos == findResourceByTag(existingTransitGatewaysResources, tgwItem.name)
  IN IF pos = 0 THEN st
     ELSE
       LET tgwResource == existingTransitGatewaysResources[pos]
       IN RecordTgw(st, tgwResource.logicalResourceId, tgwItem)

\* The loop over props.networkConfig.transitGateways ?? [].
RECURSIVE HandleTgwItems(_, _, _)
HandleTgwItems(st, existingTransitGatewaysResources, items) ==
  IF items = <<>> THEN st
  ELSE HandleTgwItems(HandleTgwItem(st, existingTransitGatewaysResources, Head(items)),
                      existingTransitGatewaysResources, Tail(items))

\* Faulty variant of FlagOrphans: the filter's negation is lost, so the matched
\* resources are reported and the unmatched ones are not.
RECURSIVE FlagOrphans_inverted(_, _)
FlagOrphans_inverted(st, existingTransitGatewaysResources) ==
  IF existingTransitGatewaysResources = <<>> THEN st
  ELSE
    LET tgwResource == Head(existingTransitGatewaysResources)
        st1 == IF tgwResource.logicalResourceId \notin Range(st.tgwInAsea) THEN st
               ELSE [st EXCEPT !.logs = Append(@, OrphanLog(tgwResource.logicalResourceId))]
    IN FlagOrphans_inverted(st1, Tail(existingTransitGatewaysResources))

\* The filter/forEach that reports the resources no declared item matched.
RECURSIVE FlagOrphans(_, _)
FlagOrphans(st, existingTransitGatewaysResources) ==
  IF existingTransitGatewaysResources = <<>> THEN st
  ELSE
    LET tgwResource == Head(existingTransitGatewaysResources)
        st1 == IF tgwResource.logicalResourceId \in Range(st.tgwInAsea) THEN st
               ELSE [st EXCEPT !.logs = Append(@, OrphanLog(tgwResource.logicalResourceId))]
    IN FlagOrphans(st1, Tail(existingTransitGatewaysResources))

\* Faulty variant of TransitGateways: only the phases before phase 0 are skipped.
TransitGateways_laterPhases(st, props) ==
  IF props.stackInfo.phase < ASEA_PHASE_NUMBER
  THEN [st EXCEPT !.logs = Append(@, NoHandleLog(props.stackInfo.stackName))]
  ELSE
    LET existingTransitGatewaysResources ==
          filterResourcesByType(props.stackInfo.resources, RESOURCE_TYPE_TRANSIT_GATEWAY)
        declared == IF props.networkConfig.hasTransitGateways
                    THEN props.networkConfig.transitGateways ELSE <<>>
    IN FlagOrphans(HandleTgwItems(st, existingTransitGatewaysResources, declared),
                   existingTransitGatewaysResources)

\* The constructor of TransitGateways, as a function of the scope's state.
TransitGateways(st, props) ==
  IF props.stackInfo.phase # ASEA_PHASE_NUMBER
  THEN [st EXCEPT !.logs = Append(@, NoHandleLog(props.stackInfo.stackName))]
  ELSE
    LET existingTransitGatewaysResources ==
          filterResourcesByType(props.stackInfo.resources, RESOURCE_TYPE_TRANSIT_GATEWAY)
        declared == IF props.networkConfig.hasTransitGateways
                    THEN props.networkConfig.transitGateways ELSE <<>>
    IN FlagOrphans(HandleTgwItems(st, existingTransitGatewaysResources, declared),
                   existingTransitGatewaysResources)

TgwInit ==
  /\ stackInfo \in [phase : Phases, stackName : StackNames, resources : ResourceLists]
  /\ networkConfig \in NetworkConfigs
  /\ stackResources = [i \in 1..Len(stackInfo.resources) |-> TemplateTgwProps]
  /\ ssmParameters = <<>>
  /\ aseaResources = <<>>
  /\ logs = <<>>
  /\ tgwInAsea = <<>>
  /\ tgwPc = "new"

\* new TransitGateways(scope, props)
NewTransitGateways ==
  /\ tgwPc = "new"
  /\ LET st == TransitGateways(
                 [stackResources |-> stackResources, ssmParameters |-> ssmParameters,
                  aseaResources |-> aseaResources, logs |-> logs, tgwInAsea |-> tgwInAsea],
                 [stackInfo |-> stackInfo, networkConfig |-> networkConfig])
     IN /\ stackResources' = st.stackResources
        /\ ssmParameters' = st.ssmParameters
        /\ aseaResources' = st.aseaResources
        /\ logs' = st.logs
        /\ tgwInAsea' = st.tgwInAsea
  /\ tgwPc' = "done"
  /\ UNCHANGED <<stackInfo, networkConfig>>

TgwIdle ==
  /\ stackInfo = [phase |-> ASEA_PHASE_NUMBER, stackName |-> "Phase-SharedNetwork",
                  resources |-> <<>>]
  /\ networkConfig = [hasTransitGateways |-> FALSE, transitGateways |-> <<>>]
  /\ stackResources = <<>>
  /\ ssmParameters = <<>>
  /\ aseaResources = <<>>
  /\ logs = <<>>
  /\ tgwInAsea = <<>>
  /\ tgwPc = "idle"

(***************************************************************************)
(* stack-utils.ts : addAcceleratorTags                                     *)
(***************************************************************************)
\* Faulty variant of excludeResourceTypes: the resolver rule entry is missing.
excludeResourceTypes_noResolverRule ==
  {"AWS::EC2::TransitGatewayRouteTable",
   "AWS::Route53Resolver::FirewallDomainList",
   "AWS::Route53Resolver::ResolverEndpoint"}

\* Resource types that do not support tag updates.
excludeResourceTypes ==
  {"AWS::EC2::TransitGatewayRouteTable",
   "AWS::Route53Resolver::FirewallDomainList",
   "AWS::Route53Resolver::ResolverEndpoint",
   "AWS::Route53Resolver::ResolverRule"}

\* The kinds of construct a tree is built from: a plain Construct, an
\* instance of aws_ec2.CfnTransitGateway, and CfnResources of other types.
ConstructKinds ==
  {[isCfnResource |-> FALSE, cfnResourceType |-> "", isCfnTransitGateway |-> FALSE],
   [isCfnResource |-> TRUE, cfnResourceType |-> "AWS::EC2::TransitGateway",
    isCfnTransitGateway |-> TRUE],
   [isCfnResource |-> TRUE, cfnResourceType |-> "AWS::S3::Bucket",
    isCfnTransitGateway |-> FALSE]}
  \cup
  {[isCfnResource |-> TRUE, cfnResourceType |-> t, isCfnTransitGateway |-> FALSE] :
     t \in {"AWS::EC2::TransitGatewayRouteTable",
            "AWS::Route53Resolver::FirewallDomainList",
            "AWS::Route53Resolver::ResolverEndpoint",
            "AWS::Route53Resolver::ResolverRule"}}

Partitions == {"aws", "aws-us-gov"}

AcceleratorPrefix == "AWSAccelerator"

\* globalConfig.tags: absent, empty, or two tags.
GlobalConfigs ==
  {[hasTags |-> FALSE, tags |-> <<>>],
   [hasTags |-> TRUE, tags |-> <<>>],
   [hasTags |-> TRUE,
    tags |-> <<[key |-> "Env", value |-> "prod"], [key |-> "Owner", value |-> "ops"]>>]}

\* Construct trees: construct 1 is the root, the parent of construct i > 1
\* is one of the constructs before it.
ConstructTrees ==
  UNION {
    {[i \in 1..n |-> [parent |-> par[i], kind |-> kd[i]]] :
       par \in {f \in [1..n -> 0..n] : \A i \in 1..n : IF i = 1 THEN f[i] = 0
                                                        ELSE f[i] \in 1..(i - 1)},
       kd \in [1..n -> ConstructKinds]}
    : n \in 1..MaxConstructs}

VARIABLES
  constructs,   \* the construct tree: parent and kind of every construct
  partition,    \* the partition argument
  globalConfig, \* the globalConfig argument
  taggedNode,   \* the node argument of the call; 0 before the call
  tagVisits     \* per construct, the Tag.visit calls made on it, in order

tagVars == <<constructs, partition, globalConfig, taggedNode, tagVisits>>

\* c is node or lies below it.
RECURSIVE IsUnder(_, _, _)
IsUnder(tree, c, node) ==
  \/ c = node
  \/ tree[c].parent # 0 /\ IsUnder(tree, tree[c].parent, node)

\* node.node.findAll(): the node and every construct below it.
findAll(tree, node) == {c \in 1..Len(tree) : IsUnder(tree, c, node)}

\* The Tag.visit calls made on one resource of the walk.
TagsVisited(resource, part, gc, acceleratorPrefix) ==
  IF resource.isCfnResource /\ resource.cfnResourceType \notin excludeResourceTypes
  THEN IF resource.isCfnTransitGateway /\ part # "aws"
       THEN <<>>
       ELSE <<[key |-> "Accel-P", value |-> acceleratorPrefix],
              [key |-> "Accelerator", value |-> acceleratorPrefix]>>
            \o (IF gc.hasTags THEN gc.tags ELSE <<>>)
  ELSE <<>>

\* addAcceleratorTags(node, partition, globalConfig, acceleratorPrefix):
\* the visits it adds to every construct of the tree.
addAcceleratorTags(visits, tree, node, part, gc, acceleratorPrefix) ==
  [c \in 1..Len(tree) |->
     IF c \in findAll(tree, node)
     THEN visits[c] \o TagsVisited(tree[c].kind, part, gc, acceleratorPrefix)
     ELSE visits[c]]

TagsInit ==
  /\ constructs \in ConstructTrees
  /\ partition \in Partitions
  /\ globalConfig \in GlobalConfigs
  /\ taggedNode = 0
  /\ tagVisits = [c \in 1..Len(constructs) |-> <<>>]

TagsIdle ==
  /\ constructs = <<>>
  /\ partition = "aws"
  /\ globalConfig = [hasTags |-> FALSE, tags |-> <<>>]
  /\ taggedNode = 0
  /\ tagVisits = <<>>

\* A call of addAcceleratorTags on some node of the tree.
AddAcceleratorTags ==
  /\ taggedNode = 0
  /\ \E node \in 1..Len(constructs) :
       /\ taggedNode' = node
       /\ tagVisits' = addAcceleratorTags(tagVisits, constructs, node, partition,
                                          globalConfig, AcceleratorPrefix)
  /\ UNCHANGED <<constructs, partition, globalConfig>>

(***************************************************************************)
(* stack-utils.ts : includeStage and the stack factories                   *)
(***************************************************************************)
\* AcceleratorStage (lib/accelerator-stage.ts)
AcceleratorStage_PIPELINE == "pipeline"
AcceleratorStage_TESTER_PIPELINE == "tester-pipeline"
AcceleratorStage_PREPARE == "prepare"
AcceleratorStage_FINALIZE == "finalize"
AcceleratorStage_ACCOUNTS == "accounts"
AcceleratorStage_ORGANIZATIONS == "organizations"
AcceleratorStage_SECURITY_AUDIT == "security-audit"
AcceleratorStage_KEY == "key"
AcceleratorStage_DEPENDENCIES == "dependencies"
AcceleratorStage_BOOTSTRAP == "bootstrap"
AcceleratorStage_LOGGING == "logging"
AcceleratorStage_SECURITY == "security"
AcceleratorStage_OPERATIONS == "operations"
AcceleratorStage_NETWORK_PREP == "network-prep"
AcceleratorStage_SECURITY_RESOURCES == "security-resources"
AcceleratorStage_NETWORK_VPC == "network-vpc"
AcceleratorStage_NETWORK_VPC_ENDPOINTS == "network-vpc-endpoints"
AcceleratorStage_NETWORK_VPC_DNS == "network-vpc-dns"
AcceleratorStage_NETWORK_ASSOCIATIONS == "network-associations"
AcceleratorStage_NETWORK_ASSOCIATIONS_GWLB == "network-associations-gwlb"
AcceleratorStage_CUSTOMIZATIONS == "customizations"
AcceleratorStage_IMPORT_ASEA_RESOURCES == "import-asea-resources"
AcceleratorStage_POST_IMPORT_ASEA_RESOURCES == "post-import-asea-resources"

AcceleratorStages ==
  {AcceleratorStage_PIPELINE, AcceleratorStage_TESTER_PIPELINE, AcceleratorStage_PREPARE,
   AcceleratorStage_FINALIZE, AcceleratorStage_ACCOUNTS, AcceleratorStage_ORGANIZATIONS,
   AcceleratorStage_SECURITY_AUDIT, AcceleratorStage_KEY, AcceleratorStage_DEPENDENCIES,
   AcceleratorStage_BOOTSTRAP, AcceleratorStage_LOGGING, AcceleratorStage_SECURITY,
   AcceleratorStage_OPERATIONS, AcceleratorStage_NETWORK_PREP,
   AcceleratorStage_SECURITY_RESOURCES, AcceleratorStage_NETWORK_VPC,
   AcceleratorStage_NETWORK_VPC_ENDPOINTS, AcceleratorStage_NETWORK_VPC_DNS,
   AcceleratorStage_NETWORK_ASSOCIATIONS, AcceleratorStage_NETWORK_ASSOCIATIONS_GWLB,
   AcceleratorStage_CUSTOMIZATIONS, AcceleratorStage_IMPORT_ASEA_RESOURCES,
   AcceleratorStage_POST_IMPORT_ASEA_RESOURCES}

\* An absent (undefined) string; it and the empty string are the falsy ones.
Undefined == "<undefined>"
Falsy(x) == x = Undefined \/ x = ""

Accounts == {"111111111111", "222222222222"}
Regions == {"us-east-1", "us-west-2"}
\* The account/region pairs the factories are called with: the first
\* account is enabled in both regions, the second in one.
AllTargets == (Accounts \X Regions) \ {<<"222222222222", "us-west-2">>}

\* The app contexts: a stage with an account or none and a region or none,
\* or no stage (a full synth) with both or neither.
Contexts ==
  [stage : AcceleratorStages,
   account : {Undefined, "111111111111"},
   region : {Undefined, "us-east-1"}]
  \cup
  {[stage |-> Undefined, account |-> Undefined, region |-> Undefined],
   [stage |-> Undefined, account |-> "111111111111", region |-> "us-east-1"]}

\* props.customizationsConfig: the custom CloudFormation stacks (as the
\* mapping generateCustomStackMappings derives them: name, dependsOn, and
\* the accounts/regions targeted) and the applications.
CustomizationsConfigs ==
  {[hasCloudFormationStacks |-> FALSE, cloudFormationStacks |-> <<>>, applications |-> <<>>],
   [hasCloudFormationStacks |-> TRUE,
    cloudFormationStacks |->
      <<[name |-> "StackA", dependsOn |-> <<>>, targets |-> AllTargets],
        [name |-> "StackB", dependsOn |-> <<"StackA">>,
         targets |-> {"111111111111"} \X Regions]>>,
    applications |-> <<[name |-> "App1", targets |-> {"111111111111"} \X Regions]>>],
   [hasCloudFormationStacks |-> TRUE,
    cloudFormationStacks |->
      <<[name |-> "StackB", dependsOn |-> <<"StackA">>, targets |-> AllTargets],
        [name |-> "StackA", dependsOn |-> <<>>, targets |-> AllTargets]>>,
    applications |-> <<>>]}

VARIABLES
  context,              \* the AcceleratorContext of the run
  customizationsConfig, \* props.customizationsConfig
  app,                  \* the ids of the stacks of the cdk.App
  dependencies,         \* Stack.addDependency: pairs <<stack, stack it depends on>>
  calls,                \* factory calls made so far
  lastCall              \* the factory call made last, with its account and region

stackVars == <<context, customizationsConfig, app, dependencies, calls, lastCall>>

\* Faulty variant of includeStage: a full synth includes the pipeline stages too.
includeStage_pipelineInFullSynth(ctx, props) ==
  IF Falsy(ctx.stage) THEN TRUE
  ELSE IF ctx.stage = props.stage
       THEN IF Falsy(ctx.account) /\ Falsy(ctx.region) THEN TRUE
            ELSE props.account = ctx.account /\ props.region = ctx.region
       ELSE FALSE

\* Faulty variant of includeStage: the account or the region matching is enough.
includeStage_accountOrRegion(ctx, props) ==
  IF Falsy(ctx.stage)
  THEN IF props.stage \in {"pipeline", "tester-pipeline"} THEN FALSE ELSE TRUE
  ELSE IF ctx.stage = props.stage
       THEN IF Falsy(ctx.account) /\ Falsy(ctx.region) THEN TRUE
            ELSE props.account = ctx.account \/ props.region = ctx.region
       ELSE FALSE

\* Faulty variant of includeStage: the account/region test is not nested under the
\* stage test, so a stack of another stage in the context's account and
\* region is included.
includeStage_envOutsideStage(ctx, props) ==
  IF Falsy(ctx.stage)
  THEN IF props.stage \in {"pipeline", "tester-pipeline"} THEN FALSE ELSE TRUE
  ELSE IF ctx.stage = props.stage /\ Falsy(ctx.account) /\ Falsy(ctx.region) THEN TRUE
       ELSE props.account = ctx.account /\ props.region = ctx.region

\* includeStage(context, props)
includeStage(ctx, props) ==
  IF Falsy(ctx.stage)
  THEN IF props.stage \in {"pipeline", "tester-pipeline"} THEN FALSE ELSE TRUE
  ELSE IF ctx.stage = props.stage
       THEN IF Falsy(ctx.account) /\ Falsy(ctx.region) THEN TRUE
            ELSE IF props.account = ctx.account /\ props.region = ctx.region THEN TRUE
                 ELSE FALSE
       ELSE FALSE

\* Construct ids.  `${AcceleratorStackNames[stage]}-${account}-${region}`,
\* `${qualifier}-${stage}-stack-${account}-${region}`,
\* `${name}-${account}-${region}` and `${prefix}-App-${name}-${account}-${region}`
\* are kept as their parts.
StackId(stage, account, region) ==
  [kind |-> "AcceleratorStackNames", qualifier |-> Undefined, key |-> stage,
   account |-> account, region |-> region]

QualifiedStackId(qualifier, stage, account, region) ==
  [kind |-> "qualifier-stage-stack", qualifier |-> qualifier, key |-> stage,
   account |-> account, region |-> region]

CustomStackId(name, account, region) ==
  [kind |-> "custom", qualifier |-> Undefined, key |-> name,
   account |-> account, region |-> region]

ApplicationStackId(name, account, region) ==
  [kind |-> "application", qualifier |-> AcceleratorPrefix, key |-> name,
   account |-> account, region |-> region]

\* new <Stack>(app, id, ...): constructs throws when the app already has a
\* child of that id.
NewStack(st, id) ==
  IF id \in st.app THEN [st EXCEPT !.threw = TRUE]
  ELSE [st EXCEPT !.app = @ \cup {id}]

\* stack.addDependency(target)
addDependency(st, stack, target) ==
  [st EXCEPT !.dependencies = @ \cup {<<stack, target>>}]

createPipelineStack(st, ctx, acceleratorEnv) ==
  IF includeStage(ctx, [stage |-> AcceleratorStage_PIPELINE, account |-> ctx.account,
                        region |-> ctx.region])
  THEN NewStack(st,
         IF ~Falsy(acceleratorEnv.qualifier)
         THEN QualifiedStackId(acceleratorEnv.qualifier, AcceleratorStage_PIPELINE,
                               ctx.account, ctx.region)
         ELSE StackId(AcceleratorStage_PIPELINE, ctx.account, ctx.region))
  ELSE st

createTesterStack(st, ctx, acceleratorEnv) ==
  IF includeStage(ctx, [stage |-> AcceleratorStage_TESTER_PIPELINE, account |-> ctx.account,
                        region |-> ctx.region])
  THEN IF ~Falsy(acceleratorEnv.managementCrossAccountRoleName)
       THEN NewStack(st,
              IF ~Falsy(acceleratorEnv.qualifier)
              THEN QualifiedStackId(acceleratorEnv.qualifier, AcceleratorStage_TESTER_PIPELINE,
                                    ctx.account, ctx.region)
              ELSE StackId(AcceleratorStage_TESTER_PIPELINE, ctx.account, ctx.region))
       ELSE st
  ELSE st

createPrepareStack(st, ctx, managementAccountId, homeRegion) ==
  IF includeStage(ctx, [stage |-> AcceleratorStage_PREPARE, account |-> managementAccountId,
                        region |-> homeRegion])
  THEN NewStack(st, StackId(AcceleratorStage_PREPARE, managementAccountId, homeRegion))
  ELSE st

createFinalizeStack(st, ctx, managementAccountId, globalRegion) ==
  IF includeStage(ctx, [stage |-> AcceleratorStage_FINALIZE, account |-> managementAccountId,
                        region |-> globalRegion])
  THEN NewStack(st, StackId(AcceleratorStage_FINALIZE, managementAccountId, globalRegion))
  ELSE st

createAccountsStack(st, ctx, managementAccountId, globalRegion) ==
  IF includeStage(ctx, [stage |-> AcceleratorStage_ACCOUNTS, account |-> managementAccountId,
                        region |-> globalRegion])
  THEN NewStack(st, StackId(AcceleratorStage_ACCOUNTS, managementAccountId, globalRegion))
  ELSE st

createOrganizationsStack(st, ctx, managementAccountId, enabledRegion) ==
  IF includeStage(ctx, [stage |-> AcceleratorStage_ORGANIZATIONS,
                        account |-> managementAccountId, region |-> enabledRegion])
  THEN NewStack(st, StackId(AcceleratorStage_ORGANIZATIONS, managementAccountId, enabledRegion))
  ELSE st

createSecurityAuditStack(st, ctx, auditAccountId, enabledRegion) ==
  IF includeStage(ctx, [stage |-> AcceleratorStage_SECURITY_AUDIT, account |-> auditAccountId,
                        region |-> enabledRegion])
  THEN NewStack(st, StackId(AcceleratorStage_SECURITY_AUDIT, auditAccountId, enabledRegion))
  ELSE st

createKeyDependencyStacks(st, ctx, accountId, enabledRegion) ==
  IF includeStage(ctx, [stage |-> AcceleratorStage_KEY, account |-> accountId,
                        region |-> enabledRegion])
  THEN NewStack(NewStack(st, StackId(AcceleratorStage_KEY, accountId, enabledRegion)),
                StackId(AcceleratorStage_DEPENDENCIES, accountId, enabledRegion))
  ELSE st

createBootstrapStack(st, ctx, accountId, enabledRegion) ==
  IF includeStage(ctx, [stage |-> AcceleratorStage_BOOTSTRAP, account |-> accountId,
                        region |-> enabledRegion])
  THEN NewStack(st, StackId(AcceleratorStage_BOOTSTRAP, accountId, enabledRegion))
  ELSE st

createLoggingStack(st, ctx, accountId, enabledRegion) ==
  IF includeStage(ctx, [stage |-> AcceleratorStage_LOGGING, account |-> accountId,
                        region |-> enabledRegion])
  THEN NewStack(st, StackId(AcceleratorStage_LOGGING, accountId, enabledRegion))
  ELSE st

createSecurityStack(st, ctx, accountId, enabledRegion) ==
  IF includeStage(ctx, [stage |-> AcceleratorStage_SECURITY, account |-> accountId,
                        region |-> enabledRegion])
  THEN NewStack(st, StackId(AcceleratorStage_SECURITY, accountId, enabledRegion))
  ELSE st

createOperationsStack(st, ctx, accountId, enabledRegion) ==
  IF includeStage(ctx, [stage |-> AcceleratorStage_OPERATIONS, account |-> accountId,
                        region |-> enabledRegion])
  THEN NewStack(st, StackId(AcceleratorStage_OPERATIONS, accountId, enabledRegion))
  ELSE st

createNetworkPrepStack(st, ctx, accountId, enabledRegion) ==
  IF includeStage(ctx, [stage |-> AcceleratorStage_NETWORK_PREP, account |-> accountId,
                        region |-> enabledRegion])
  THEN NewStack(st, StackId(AcceleratorStage_NETWORK_PREP, accountId, enabledRegion))
  ELSE st

createSecurityResourcesStack(st, ctx, accountId, enabledRegion) ==
  IF includeStage(ctx, [stage |-> AcceleratorStage_SECURITY_RESOURCES, account |-> accountId,
                        region |-> enabledRegion])
  THEN NewStack(st, StackId(AcceleratorStage_SECURITY_RESOURCES, accountId, enabledRegion))
  ELSE st

\* Faulty variant of createNetworkVpcStacks: the DNS stack is made to depend on the
\* VPC stack instead of the endpoints stack.
createNetworkVpcStacks_dnsOnVpc(st, ctx, accountId, enabledRegion) ==
  IF includeStage(ctx, [stage |-> AcceleratorStage_NETWORK_VPC, account |-> accountId,
                        region |-> enabledRegion])
  THEN
    LET vpcStack == StackId(AcceleratorStage_NETWORK_VPC, accountId, enabledRegion)
        endpointsStack == StackId(AcceleratorStage_NETWORK_VPC_ENDPOINTS, accountId, enabledRegion)
        dnsStack == StackId(AcceleratorStage_NETWORK_VPC_DNS, accountId, enabledRegion)
        st1 == NewStack(st, vpcStack)
        st2 == addDependency(NewStack(st1, endpointsStack), endpointsStack, vpcStack)
    IN addDependency(NewStack(st2, dnsStack), dnsStack, vpcStack)
  ELSE st

createNetworkVpcStacks(st, ctx, accountId, enabledRegion) ==
  IF includeStage(ctx, [stage |-> AcceleratorStage_NETWORK_VPC, account |-> accountId,
                        region |-> enabledRegion])
  THEN
    LET vpcStack == StackId(AcceleratorStage_NETWORK_VPC, accountId, enabledRegion)
        endpointsStack == StackId(AcceleratorStage_NETWORK_VPC_ENDPOINTS, accountId, enabledRegion)
        dnsStack == StackId(AcceleratorStage_NETWORK_VPC_DNS, accountId, enabledRegion)
        st1 == NewStack(st, vpcStack)
        st2 == addDependency(NewStack(st1, endpointsStack), endpointsStack, vpcStack)
    IN addDependency(NewStack(st2, dnsStack), dnsStack, endpointsStack)
  ELSE st

createNetworkAssociationsStacks(st, ctx, accountId, enabledRegion) ==
  IF includeStage(ctx, [stage |-> AcceleratorStage_NETWORK_ASSOCIATIONS, account |-> accountId,
                        region |-> enabledRegion])
  THEN NewStack(NewStack(st, StackId(AcceleratorStage_NETWORK_ASSOCIATIONS, accountId,
                                     enabledRegion)),
                StackId(AcceleratorStage_NETWORK_ASSOCIATIONS_GWLB, accountId, enabledRegion))
  ELSE st

\* generateCustomStackMappings(..., accountId, enabledRegion): the custom
\* stacks deployed to the account and region, in list order.
generateCustomStackMappings(config, accountId, enabledRegion) ==
  SelectSeq(config.cloudFormationStacks,
            LAMBDA stack : <<accountId, enabledRegion>> \in stack.targets)

\* isIncluded(deploymentTargets, region, accountId, ...)
isIncluded(deploymentTargets, enabledRegion, accountId) ==
  <<accountId, enabledRegion>> \in deploymentTargets

\* addCustomStackDependencies(stack, customStack, customStackList), called
\* for the i-th stack: stackObj is set on the list entries 1..i only.
RECURSIVE addCustomStackDependencies(_, _, _, _, _, _)
addCustomStackDependencies(st, customStackList, i, dependsOn, accountId, enabledRegion) ==
  IF dependsOn = <<>> THEN st
  ELSE
    LET stackName == Head(dependsOn)
        found == {j \in 1..Len(customStackList) : customStackList[j].name = stackName}
        first == IF found = {} THEN 0 ELSE CHOOSE j \in found : \A k \in found : j <= k
        st1 == IF first # 0 /\ first <= i
               THEN addDependency(st,
                      CustomStackId(customStackList[i].name, accountId, enabledRegion),
                      CustomStackId(customStackList[first].name, accountId, enabledRegion))
               ELSE st
    IN addCustomStackDependencies(st1, customStackList, i, Tail(dependsOn), accountId,
                                  enabledRegion)

\* The loop of createCustomStacks from the i-th stack of the list on.
RECURSIVE createCustomStacksFrom(_, _, _, _, _)
createCustomStacksFrom(st, customStackList, i, accountId, enabledRegion) ==
  IF i > Len(customStackList) THEN st
  ELSE
    LET st1 == NewStack(st, CustomStackId(customStackList[i].name, accountId, enabledRegion))
        st2 == addCustomStackDependencies(st1, customStackList, i,
                                          customStackList[i].dependsOn, accountId, enabledRegion)
    IN createCustomStacksFrom(st2, customStackList, i + 1, accountId, enabledRegion)

createCustomStacks(st, config, accountId, enabledRegion) ==
  IF config.hasCloudFormationStacks
  THEN createCustomStacksFrom(st, generateCustomStackMappings(config, accountId, enabledRegion),
                              1, accountId, enabledRegion)
  ELSE st

RECURSIVE createApplicationsStacksFrom(_, _, _, _)
createApplicationsStacksFrom(st, applications, accountId, enabledRegion) ==
  IF applications = <<>> THEN st
  ELSE
    LET application == Head(applications)
        st1 == IF isIncluded(application.targets, enabledRegion, accountId)
               THEN NewStack(st, ApplicationStackId(application.name, accountId, enabledRegion))
               ELSE st
    IN createApplicationsStacksFrom(st1, Tail(applications), accountId, enabledRegion)

createApplicationsStacks(st, config, accountId, enabledRegion) ==
  createApplicationsStacksFrom(st, config.applications, accountId, enabledRegion)

createCustomizationsStacks(st, ctx, config, accountId, enabledRegion) ==
  IF includeStage(ctx, [stage |-> AcceleratorStage_CUSTOMIZATIONS, account |-> accountId,
                        region |-> enabledRegion])
  THEN
    LET st1 == NewStack(st, StackId(AcceleratorStage_CUSTOMIZATIONS, accountId, enabledRegion))
        st2 == createCustomStacks(st1, config, accountId, enabledRegion)
    IN createApplicationsStacks(st2, config, accountId, enabledRegion)
  ELSE st

NoCall == [factory |-> "none", account |-> Undefined, region |-> Undefined]

StacksInit ==
  /\ context \in Contexts
  /\ customizationsConfig \in CustomizationsConfigs
  /\ app = {}
  /\ dependencies = {}
  /\ calls = 0
  /\ lastCall = NoCall

StacksIdle ==
  /\ context = [stage |-> Undefined, account |-> Undefined, region |-> Undefined]
  /\ customizationsConfig =
       [hasCloudFormationStacks |-> FALSE, cloudFormationStacks |-> <<>>, applications |-> <<>>]
  /\ app = {}
  /\ dependencies = {}
  /\ calls = 0
  /\ lastCall = NoCall

\* The app as the factories see it.
AppState == [app |-> app, dependencies |-> dependencies, threw |-> FALSE]

\* A factory call that returned (a throw ends the synthesis).
Call(factory, account, region, result) ==
  /\ calls < MaxCalls
  /\ ~result.threw
  /\ app' = result.app
  /\ dependencies' = result.dependencies
  /\ calls' = calls + 1
  /\ lastCall' = [factory |-> factory, account |-> account, region |-> region]
  /\ UNCHANGED <<context, customizationsConfig>>

AcceleratorEnvs ==
  [qualifier : {Undefined, "qual"}, managementCrossAccountRoleName : {Undefined, "CrossRole"}]

CreatePipelineStack ==
  \E env \in AcceleratorEnvs :
    Call("createPipelineStack", context.account, context.region,
         createPipelineStack(AppState, context, env))

CreateTesterStack ==
  \E env \in AcceleratorEnvs :
    Call("createTesterStack", context.account, context.region,
         createTesterStack(AppState, context, env))

CreatePrepareStack ==
  \E a \in Accounts, r \in Regions :
    <<a, r>> \in AllTargets /\
    Call("createPrepareStack", a, r, createPrepareStack(AppState, context, a, r))

CreateFinalizeStack ==
  \E a \in Accounts, r \in Regions :
    <<a, r>> \in AllTargets /\
    Call("createFinalizeStack", a, r, createFinalizeStack(AppState, context, a, r))

CreateAccountsStack ==
  \E a \in Accounts, r \in Regions :
    <<a, r>> \in AllTargets /\
    Call("createAccountsStack", a, r, createAccountsStack(AppState, context, a, r))

CreateOrganizationsStack ==
  \E a \in Accounts, r \in Regions :
    <<a, r>> \in AllTargets /\
    Call("createOrganizationsStack", a, r, createOrganizationsStack(AppState, context, a, r))

CreateSecurityAuditStack ==
  \E a \in Accounts, r \in Regions :
    <<a, r>> \in AllTargets /\
    Call("createSecurityAuditStack", a, r, createSecurityAuditStack(AppState, context, a, r))

CreateKeyDependencyStacks ==
  \E a \in Accounts, r \in Regions :
    <<a, r>> \in AllTargets /\
    Call("createKeyDependencyStacks", a, r, createKeyDependencyStacks(AppState, context, a, r))

CreateBootstrapStack ==
  \E a \in Accounts, r \in Regions :
    <<a, r>> \in AllTargets /\
    Call("createBootstrapStack", a, r, createBootstrapStack(AppState, context, a, r))

CreateLoggingStack ==
  \E a \in Accounts, r \in Regions :
    <<a, r>> \in AllTargets /\
    Call("createLoggingStack", a, r, createLoggingStack(AppState, context, a, r))

CreateSecurityStack ==
  \E a \in Accounts, r \in Regions :
    <<a, r>> \in AllTargets /\
    Call("createSecurityStack", a, r, createSecurityStack(AppState, context, a, r))

CreateOperationsStack ==
  \E a \in Accounts, r \in Regions :
    <<a, r>> \in AllTargets /\
    Call("createOperationsStack", a, r, createOperationsStack(AppState, context, a, r))

CreateNetworkPrepStack ==
  \E a \in Accounts, r \in Regions :
    <<a, r>> \in AllTargets /\
    Call("createNetworkPrepStack", a, r, createNetworkPrepStack(AppState, context, a, r))

CreateSecurityResourcesStack ==
  \E a \in Accounts, r \in Regions :
    <<a, r>> \in AllTargets /\
    Call("createSecurityResourcesStack", a, r,
         createSecurityResourcesStack(AppState, context, a, r))

CreateNetworkVpcStacks ==
  \E a \in Accounts, r \in Regions :
    <<a, r>> \in AllTargets /\
    Call("createNetworkVpcStacks", a, r, createNetworkVpcStacks(AppState, context, a, r))

CreateNetworkAssociationsStacks ==
  \E a \in Accounts, r \in Regions :
    <<a, r>> \in AllTargets /\
    Call("createNetworkAssociationsStacks", a, r,
         createNetworkAssociationsStacks(AppState, context, a, r))

CreateCustomizationsStacks ==
  \E a \in Accounts, r \in Regions :
    <<a, r>> \in AllTargets /\
    Call("createCustomizationsStacks", a, r,
         createCustomizationsStacks(AppState, context, customizationsConfig, a, r))

(***************************************************************************)
(* stack-utils.ts : importAseaResourceStacks                               *)
(***************************************************************************)
\* The phases importAseaResourceStacks walks, in order.
AseaPhases == <<-1, 0, 1, 2, 3, 4, 5>>

\* Entries a template map is made of: stacks of two accounts and two
\* regions, one of them nested, two of them with the same stack name in
\* different accounts.
TemplateEntries ==
  <<[accountId |-> "111111111111", region |-> "us-east-1", phase |-> 1,
     stackName |-> "ASEA-Phase1", nestedStack |-> FALSE],
    [accountId |-> "111111111111", region |-> "us-east-1", phase |-> 0,
     stackName |-> "ASEA-Phase0", nestedStack |-> FALSE],
    [accountId |-> "222222222222", region |-> "us-east-1", phase |-> 0,
     stackName |-> "ASEA-Phase0", nestedStack |-> FALSE],
    [accountId |-> "111111111111", region |-> "us-east-1", phase |-> 1,
     stackName |-> "ASEA-Phase1-Nested", nestedStack |-> TRUE],
    [accountId |-> "111111111111", region |-> "us-west-2", phase |-> 0,
     stackName |-> "ASEA-Phase0", nestedStack |-> FALSE]>>

\* The entries of TemplateEntries at the positions of keep, in list order.
RECURSIVE SubSeq2(_, _, _)
SubSeq2(entries, keep, i) ==
  IF i > Len(entries) THEN <<>>
  ELSE (IF i \in keep THEN <<entries[i]>> ELSE <<>>) \o SubSeq2(entries, keep, i + 1)

TemplateMaps == {SubSeq2(TemplateEntries, keep, 1) : keep \in SUBSET (1..Len(TemplateEntries))}

\* globalConfig.externalLandingZoneResources: absent, or present with the
\* import flag, an optional template map and an optional accelerator prefix.
ExternalLandingZoneResources ==
  {[present |-> FALSE, importExternalLandingZoneResources |-> FALSE,
    hasTemplateMap |-> FALSE, templateMap |-> <<>>, acceleratorPrefix |-> Undefined]}
  \cup
  [present : {TRUE}, importExternalLandingZoneResources : BOOLEAN,
   hasTemplateMap : {TRUE}, templateMap : TemplateMaps,
   acceleratorPrefix : {Undefined, "", "ASEA"}]
  \cup
  [present : {TRUE}, importExternalLandingZoneResources : BOOLEAN,
   hasTemplateMap : {FALSE}, templateMap : {<<>>},
   acceleratorPrefix : {Undefined, "", "ASEA"}]

\* The contexts importAseaResourceStacks is run under.
ImportContexts ==
  [stage : {Undefined, AcceleratorStage_IMPORT_ASEA_RESOURCES,
            AcceleratorStage_POST_IMPORT_ASEA_RESOURCES, AcceleratorStage_LOGGING},
   account : {Undefined},
   region : {Undefined}]
  \cup
  [stage : {Undefined, AcceleratorStage_IMPORT_ASEA_RESOURCES,
            AcceleratorStage_POST_IMPORT_ASEA_RESOURCES, AcceleratorStage_LOGGING},
   account : {"111111111111"},
   region : {"us-east-1"}]

VARIABLES
  externalLandingZoneResources, \* props.globalConfig.externalLandingZoneResources
  aseaApps,     \* the cdk.Apps importAseaResourceStacks created, in order
  importResult  \* how the last importAseaResourceStacks call ended

importVars == <<externalLandingZoneResources, aseaApps, importResult>>

\* The id of the empty stack added to the root app.
PlaceHolder ==
  [kind |-> "id", qualifier |-> Undefined, key |-> "placeHolder",
   account |-> Undefined, region |-> Undefined]

MapFileError == "Could not load asea mapping file from externalLandingZoneResources in global config"
PrefixError == "Could not load accelerator prefix from externalLandingZoneResources in global config"
ValidationFailed == "Configuration validation failed at runtime."
DuplicateConstruct == "There is already a Construct with name 'placeHolder'"

NoImport == [kind |-> "none", logged |-> <<>>, message |-> "", resourceMapping |-> <<>>]
ReturnedUndefined ==
  [kind |-> "undefined", logged |-> <<>>, message |-> "", resourceMapping |-> <<>>]
Thrown(logged, message) ==
  [kind |-> "error", logged |-> logged, message |-> message, resourceMapping |-> <<>>]

\* ImportAseaResourcesStack.resourceMapping of one imported stack.
StackResourceMapping(aseaStack) ==
  <<[stackName |-> aseaStack.stackName, accountId |-> aseaStack.accountId,
     region |-> aseaStack.region]>>

\* Faulty variant of AseaStacksOf: the region is not compared.
AseaStacksOf_anyRegion(aseaStackMap, accountId, enabledRegion, phase) ==
  SelectSeq(aseaStackMap, LAMBDA stack : stack.accountId = accountId /\ stack.phase = phase)

\* aseaStackMap.filter(...) for one phase.
AseaStacksOf(aseaStackMap, accountId, enabledRegion, phase) ==
  SelectSeq(aseaStackMap,
            LAMBDA stack : /\ stack.accountId = accountId
                           /\ stack.region = enabledRegion
                           /\ stack.phase = phase)

\* The loop over the phases from the i-th phase on: the stacks instantiated
\* in the new app, the warnings logged and the mappings collected.
RECURSIVE ImportPhasesFrom(_, _, _, _, _)
ImportPhasesFrom(acc, aseaStackMap, accountId, enabledRegion, i) ==
  IF i > Len(AseaPhases) THEN acc
  ELSE
    LET phase == AseaPhases[i]
        aseaStacks == AseaStacksOf(aseaStackMap, accountId, enabledRegion, phase)
        imported == SelectSeq(aseaStacks, LAMBDA stack : ~stack.nestedStack)
        acc1 ==
          IF Len(aseaStacks) = 0
          THEN [acc EXCEPT !.logged = Append(@, <<"No ASEA stack found for account ",
                                                   accountId, enabledRegion, phase>>)]
          ELSE [acc EXCEPT
                  !.stacks = @ \o imported,
                  !.resourceMapping =
                     @ \o [k \in 1..Len(imported) |-> StackResourceMapping(imported[k])[1]]]
    IN ImportPhasesFrom(acc1, aseaStackMap, accountId, enabledRegion, i + 1)

\* Faulty variant of ImportGatePasses: the import flag is not consulted.
ImportGatePasses_flagIgnored(ctx, elz, accountId, enabledRegion) ==
  ~( /\ ~includeStage(ctx, [stage |-> AcceleratorStage_IMPORT_ASEA_RESOURCES,
                            account |-> accountId, region |-> enabledRegion])
     /\ ~includeStage(ctx, [stage |-> AcceleratorStage_POST_IMPORT_ASEA_RESOURCES,
                            account |-> accountId, region |-> enabledRegion]) )

\* The stage/enable test at the head of importAseaResourceStacks.
ImportGatePasses(ctx, elz, accountId, enabledRegion) ==
  ~( \/ ( /\ ~includeStage(ctx, [stage |-> AcceleratorStage_IMPORT_ASEA_RESOURCES,
                                 account |-> accountId, region |-> enabledRegion])
          /\ ~includeStage(ctx, [stage |-> AcceleratorStage_POST_IMPORT_ASEA_RESOURCES,
                                 account |-> accountId, region |-> enabledRegion]) )
      \/ ~(elz.present /\ elz.importExternalLandingZoneResources) )

\* Faulty variant of AddPlaceHolder: the stack is created without looking
\* for an existing child.
AddPlaceHolder_unchecked(st) == NewStack(st, PlaceHolder)

\* if (!rootApp.node.tryFindChild('placeHolder')) new cdk.Stack(rootApp, 'placeHolder', {})
AddPlaceHolder(st) ==
  IF PlaceHolder \notin st.app THEN NewStack(st, PlaceHolder) ELSE st

\* Faulty variant of ValidateAseaConfig: a missing prefix is let through.
ValidateAseaConfig_prefixUnchecked(elz) ==
  IF ~elz.hasTemplateMap THEN Thrown(<<MapFileError>>, ValidationFailed)
  ELSE NoImport

\* The two runtime checks: the error thrown, or NoImport when both pass.
ValidateAseaConfig(elz) ==
  IF ~elz.hasTemplateMap THEN Thrown(<<MapFileError>>, ValidationFailed)
  ELSE IF Falsy(elz.acceleratorPrefix) THEN Thrown(<<PrefixError>>, ValidationFailed)
  ELSE NoImport

\* importAseaResourceStacks(rootApp, rootContext, props, accountId, enabledRegion):
\* the root app, the apps created and the outcome of the call.
importAseaResourceStacks(st, ctx, elz, accountId, enabledRegion) ==
  IF ~ImportGatePasses(ctx, elz, accountId, enabledRegion)
  THEN [st EXCEPT !.result = ReturnedUndefined]
  ELSE
    LET root == AddPlaceHolder([app |-> st.app, dependencies |-> {}, threw |-> FALSE])
        checked == ValidateAseaConfig(elz)
    IN IF root.threw
       THEN [st EXCEPT !.result = Thrown(<<>>, DuplicateConstruct)]
       ELSE IF checked.kind = "error"
       THEN [st EXCEPT !.app = root.app, !.result = checked]
       ELSE
         LET done == ImportPhasesFrom([stacks |-> <<>>, logged |-> <<>>,
                                       resourceMapping |-> <<>>],
                                      elz.templateMap, accountId, enabledRegion, 1)
         IN [st EXCEPT
               !.app = root.app,
               !.aseaApps = Append(@, [outdir |-> <<"cdk.out/phase-", accountId, enabledRegion>>,
                                       stacks |-> done.stacks]),
               !.result = [kind |-> "mapping", logged |-> done.logged, message |-> "",
                           resourceMapping |-> done.resourceMapping]]

ImportIdle ==
  /\ externalLandingZoneResources =
       [present |-> FALSE, importExternalLandingZoneResources |-> FALSE,
        hasTemplateMap |-> FALSE, templateMap |-> <<>>, acceleratorPrefix |-> Undefined]
  /\ aseaApps = <<>>
  /\ importResult = NoImport

\* The root app holds the stacks the factories put there, if any.
ImportInit ==
  /\ context \in ImportContexts
  /\ customizationsConfig =
       [hasCloudFormationStacks |-> FALSE, cloudFormationStacks |-> <<>>, applications |-> <<>>]
  /\ app \in {{}, {StackId(AcceleratorStage_LOGGING, "111111111111", "us-east-1")}}
  /\ dependencies = {}
  /\ calls = 0
  /\ lastCall = NoCall
  /\ externalLandingZoneResources \in ExternalLandingZoneResources
  /\ aseaApps = <<>>
  /\ importResult = NoImport

\* A call of importAseaResourceStacks; an error thrown ends the synthesis.
ImportAseaResourceStacks ==
  /\ calls < MaxCalls
  /\ importResult.kind # "error"
  /\ \E t \in AllTargets :
       LET out == importAseaResourceStacks(
                    [app |-> app, aseaApps |-> aseaApps, result |-> importResult],
                    context, externalLandingZoneResources, t[1], t[2])
       IN /\ app' = out.app
          /\ aseaApps' = out.aseaApps
          /\ importResult' = out.result
          /\ lastCall' = [factory |-> "importAseaResourceStacks", account |-> t[1],
                          region |-> t[2]]
  /\ calls' = calls + 1
  /\ UNCHANGED <<context, customizationsConfig, dependencies, externalLandingZoneResources>>

vars == <<tgwVars, tagVars, stackVars, importVars>>

TgwNext == NewTransitGateways /\ UNCHANGED <<tagVars, stackVars, importVars>>

InitTgw == TgwInit /\ TagsIdle /\ StacksIdle /\ ImportIdle

SpecTgw == InitTgw /\ [][TgwNext]_vars

TagsNext == AddAcceleratorTags /\ UNCHANGED <<tgwVars, stackVars, importVars>>

InitTags == TagsInit /\ TgwIdle /\ StacksIdle /\ ImportIdle

SpecTags == InitTags /\ [][TagsNext]_vars

Init == StacksInit /\ TgwIdle /\ TagsIdle /\ ImportIdle

Factories ==
  \/ CreatePipelineStack
  \/ CreateTesterStack
  \/ CreatePrepareStack
  \/ CreateFinalizeStack
  \/ CreateAccountsStack
  \/ CreateOrganizationsStack
  \/ CreateSecurityAuditStack
  \/ CreateKeyDependencyStacks
  \/ CreateBootstrapStack
  \/ CreateLoggingStack
  \/ CreateSecurityStack
  \/ CreateOperationsStack
  \/ CreateNetworkPrepStack
  \/ CreateSecurityResourcesStack
  \/ CreateNetworkVpcStacks
  \/ CreateNetworkAssociationsStacks
  \/ CreateCustomizationsStacks

Next == Factories /\ UNCHANGED <<tgwVars, tagVars, importVars>>

Spec == Init /\ [][Next]_vars

InitImport == ImportInit /\ TgwIdle /\ TagsIdle

ImportNext == ImportAseaResourceStacks /\ UNCHANGED <<tgwVars, tagVars>>

SpecImport == InitImport /\ [][ImportNext]_vars

(***************************************************************************)
(* Properties of the TransitGateways importer.                             *)
(***************************************************************************)
\* The importer has run on a phase-0 stack.
TgwRanPhase0 == tgwPc = "done" /\ stackInfo.phase = ASEA_PHASE_NUMBER

ExistingTgws == filterResourcesByType(stackInfo.resources, RESOURCE_TYPE_TRANSIT_GATEWAY)

Declared ==
  IF networkConfig.hasTransitGateways THEN networkConfig.transitGateways ELSE <<>>

\* The logical id matched by the i-th declared item; 0 when it matches none.
MatchOf(i) ==
  LET pos == findResourceByTag(ExistingTgws, Declared[i].name)
  IN IF pos = 0 THEN 0 ELSE ExistingTgws[pos].logicalResourceId

MatchedItems == {i \in 1..Len(Declared) : MatchOf(i) # 0}

MatchedIds == {MatchOf(i) : i \in MatchedItems}

ExistingIds == {ExistingTgws[k].logicalResourceId : k \in 1..Len(ExistingTgws)}

\* The number of matched declared items among the first i.
MatchedUpTo(i) == Cardinality({j \in MatchedItems : j <= i})

TgwSsmPath(name) == getSsmPath(SsmResourceType_TGW, <<name>>)

DeclaredProps(tgwItem) ==
  [amazonSideAsn |-> tgwItem.asn,
   autoAcceptSharedAttachments |-> tgwItem.autoAcceptSharingAttachments,
   defaultRouteTableAssociation |-> tgwItem.defaultRouteTableAssociation,
   defaultRouteTablePropagation |-> tgwItem.defaultRouteTablePropagation,
   dnsSupport |-> tgwItem.dnsSupport,
   vpnEcmpSupport |-> tgwItem.vpnEcmpSupport]

\* C1: on a phase-0 stack every declared transit gateway maps to at most one
\* existing AWS::EC2::TransitGateway resource: an item that findResourceByTag
\* does not match leaves no trace, and a matched item patches and records
\* exactly one resource, the one findResourceByTag returns for its name.
C1_AtMostOneResourcePerItem ==
  TgwRanPhase0 =>
    /\ Len(tgwInAsea) = Cardinality(MatchedItems)
    /\ Len(ssmParameters) = Cardinality(MatchedItems)
    /\ \A i \in MatchedItems :
         /\ tgwInAsea[MatchedUpTo(i)] = MatchOf(i)
         /\ ssmParameters[MatchedUpTo(i)].stringValue = Ref(MatchOf(i))
         /\ ssmParameters[MatchedUpTo(i)].parameterName = TgwSsmPath(Declared[i].name)
    /\ \A i \in (1..Len(Declared)) \ MatchedItems :
         \A k \in 1..Len(ssmParameters) :
           ssmParameters[k].parameterName # TgwSsmPath(Declared[i].name)
    /\ {id \in DOMAIN stackResources : stackResources[id] # TemplateTgwProps} = MatchedIds

\* C1 witness: two existing transit gateways carry the Name tag of a declared
\* item, and another declared item matches nothing.
W_C1_TwoCandidatesOneSkipped ==
  /\ TgwRanPhase0
  /\ \E i \in MatchedItems :
       Cardinality({k \in 1..Len(ExistingTgws) :
                      ExistingTgws[k].nameTag = Declared[i].name}) = 2
  /\ \E i \in 1..Len(Declared) : i \notin MatchedItems

\* The logical ids reported as orphans, in log order.
IsOrphanLog(l) == \E id \in ExistingIds : l = OrphanLog(id)

\* C2: on a phase-0 stack the existing transit gateway resources split into
\* the matched ones and the ones reported as orphans: a resource is reported
\* iff no declared item matched it, exactly once, and it is left as it was.
C2_MatchedOrOrphan ==
  TgwRanPhase0 =>
    /\ \A id \in ExistingIds :
         /\ (id \in MatchedIds) <=> (OrphanLog(id) \notin Range(logs))
         /\ SeqCount(logs, OrphanLog(id)) = (IF id \in MatchedIds THEN 0 ELSE 1)
         /\ id \notin MatchedIds =>
              /\ id \in DOMAIN stackResources
              /\ stackResources[id] = TemplateTgwProps
    /\ \A k \in 1..Len(logs) : IsOrphanLog(logs[k])
    /\ Len(logs) = Cardinality(ExistingIds \ MatchedIds)
    /\ DOMAIN stackResources = 1..Len(stackInfo.resources)

\* C2 witness: one existing transit gateway is matched and another is an orphan.
W_C2_OneMatchedOneOrphan ==
  /\ TgwRanPhase0
  /\ MatchedIds # {}
  /\ ExistingIds \ MatchedIds # {}
  /\ \E k \in 1..Len(logs) : IsOrphanLog(logs[k])

\* C3 as stated: after the importer runs, the resource matched by a declared
\* item carries that item's six settings, and an SSM parameter with the
\* item's TGW path holds the ref of that resource.
C3_Original_EveryMatchedItemPatched ==
  TgwRanPhase0 =>
    \A i \in MatchedItems :
      /\ stackResources[MatchOf(i)] = DeclaredProps(Declared[i])
      /\ \E k \in 1..Len(ssmParameters) :
           /\ ssmParameters[k].parameterName = TgwSsmPath(Declared[i].name)
           /\ ssmParameters[k].stringValue = Ref(MatchOf(i))

\* The last declared item that matched the resource the i-th item matched.
LastMatching(i) ==
  CHOOSE j \in MatchedItems :
    /\ MatchOf(j) = MatchOf(i)
    /\ \A l \in MatchedItems : MatchOf(l) = MatchOf(i) => l <= j

\* C3 amended: the resource matched by a declared item carries the six
\* settings of the last declared item that matched that resource (the
\* item's own when no later item shares its name), and an SSM parameter with
\* the item's TGW path holds the ref of that resource.
C3_LastMatchingItemPatched ==
  TgwRanPhase0 =>
    \A i \in MatchedItems :
      /\ stackResources[MatchOf(i)] = DeclaredProps(Declared[LastMatching(i)])
      /\ \E k \in 1..Len(ssmParameters) :
           /\ ssmParameters[k].parameterName = TgwSsmPath(Declared[i].name)
           /\ ssmParameters[k].stringValue = Ref(MatchOf(i))

\* C3 witness: two declared items with different settings matched the same
\* resource, which ends with the settings of the later one.
W_C3_SameResourceTwice ==
  /\ TgwRanPhase0
  /\ \E i, j \in MatchedItems :
       /\ i < j
       /\ MatchOf(i) = MatchOf(j)
       /\ Declared[i].asn # Declared[j].asn
       /\ stackResources[MatchOf(i)].amazonSideAsn = Declared[j].asn

AseaTgwNames ==
  {aseaResources[k].identifier :
     k \in {k \in 1..Len(aseaResources) :
              aseaResources[k].type = AseaResourceType_TRANSIT_GATEWAY}}

SsmTgwNames == {n \in TgwNames : \E k \in 1..Len(ssmParameters) :
                  ssmParameters[k].parameterName = TgwSsmPath(n)}

\* C4: the names recorded by addAseaResource(TRANSIT_GATEWAY, name), the
\* names an SSM parameter is emitted for and the declared names that matched
\* are the same set; an unmatched declared item has neither, and there are as
\* many SSM parameters as matched declared items.
C4_MappingsEqualSsmEqualMatched ==
  TgwRanPhase0 =>
    /\ AseaTgwNames = SsmTgwNames
    /\ SsmTgwNames = {Declared[i].name : i \in MatchedItems}
    /\ \A i \in (1..Len(Declared)) \ MatchedItems :
         /\ Declared[i].name \notin SsmTgwNames
         /\ Declared[i].name \notin AseaTgwNames
    /\ Len(ssmParameters) = Cardinality(MatchedItems)
    /\ Len(aseaResources) = Cardinality(MatchedItems)

\* C4 witness: one declared item matched and one did not.
W_C4_OneMatchedOneUnmatched ==
  /\ TgwRanPhase0
  /\ MatchedItems # {}
  /\ (1..Len(Declared)) \ MatchedItems # {}
  /\ Len(ssmParameters) = 1

\* C5: on a stack whose phase is not 0 the importer adds exactly the INFO
\* log 'No AWS::EC2::TransitGateways to handle in stack <stackName>' and
\* changes nothing else.
C5_OtherPhasesOnlyLog ==
  [][stackInfo.phase # ASEA_PHASE_NUMBER =>
       /\ logs' = Append(logs, NoHandleLog(stackInfo.stackName))
       /\ UNCHANGED <<stackResources, ssmParameters, aseaResources, tgwInAsea,
                      stackInfo, networkConfig>>]_vars

\* C5 witness: the importer has run on a stack of another phase that holds a
\* transit gateway a declared item names.
W_C5_OtherPhaseWithMatch ==
  /\ tgwPc = "done"
  /\ stackInfo.phase # ASEA_PHASE_NUMBER
  /\ MatchedItems # {}
  /\ logs = <<NoHandleLog(stackInfo.stackName)>>

(***************************************************************************)
(* Properties of addAcceleratorTags.                                       *)
(***************************************************************************)
HasVisit(c, k, v) ==
  \E i \in 1..Len(tagVisits[c]) : tagVisits[c][i] = [key |-> k, value |-> v]

TransitGatewayException(c) ==
  constructs[c].kind.isCfnTransitGateway /\ partition # "aws"

\* C6: after addAcceleratorTags(node, ...) no tag has been applied to a
\* construct of one of the four excluded types, to a construct that is not a
\* CfnResource or to a construct outside the node's tree; every other
\* CfnResource under the node, the transit gateway partition exception
\* apart, has been visited with Accel-P, Accelerator and every
\* globalConfig tag.
C6_TagsSkipExcludedTypes ==
  taggedNode # 0 =>
    \A c \in 1..Len(constructs) :
      LET k == constructs[c].kind
      IN IF \/ ~k.isCfnResource
            \/ k.cfnResourceType \in
                 {"AWS::EC2::TransitGatewayRouteTable",
                  "AWS::Route53Resolver::FirewallDomainList",
                  "AWS::Route53Resolver::ResolverEndpoint",
                  "AWS::Route53Resolver::ResolverRule"}
            \/ ~IsUnder(constructs, c, taggedNode)
         THEN tagVisits[c] = <<>>
         ELSE ~TransitGatewayException(c) =>
                /\ HasVisit(c, "Accel-P", AcceleratorPrefix)
                /\ HasVisit(c, "Accelerator", AcceleratorPrefix)
                /\ globalConfig.hasTags =>
                     \A i \in 1..Len(globalConfig.tags) :
                       HasVisit(c, globalConfig.tags[i].key, globalConfig.tags[i].value)

\* C6 witness: the walk met a resolver rule, which it left alone, and a
\* bucket, which it visited with a globalConfig tag.
W_C6_ExcludedAndTagged ==
  /\ taggedNode # 0
  /\ \E c, d \in findAll(constructs, taggedNode) :
       /\ constructs[c].kind.cfnResourceType = "AWS::Route53Resolver::ResolverRule"
       /\ tagVisits[c] = <<>>
       /\ constructs[d].kind.cfnResourceType = "AWS::S3::Bucket"
       /\ HasVisit(d, "Owner", "ops")

(***************************************************************************)
(* Properties of includeStage and the stack factories.                     *)
(***************************************************************************)
\* The stage each factory hands to includeStage.
GatingStage(factory) ==
  CASE factory = "createPipelineStack" -> AcceleratorStage_PIPELINE
    [] factory = "createTesterStack" -> AcceleratorStage_TESTER_PIPELINE
    [] factory = "createPrepareStack" -> AcceleratorStage_PREPARE
    [] factory = "createFinalizeStack" -> AcceleratorStage_FINALIZE
    [] factory = "createAccountsStack" -> AcceleratorStage_ACCOUNTS
    [] factory = "createOrganizationsStack" -> AcceleratorStage_ORGANIZATIONS
    [] factory = "createSecurityAuditStack" -> AcceleratorStage_SECURITY_AUDIT
    [] factory = "createKeyDependencyStacks" -> AcceleratorStage_KEY
    [] factory = "createBootstrapStack" -> AcceleratorStage_BOOTSTRAP
    [] factory = "createLoggingStack" -> AcceleratorStage_LOGGING
    [] factory = "createSecurityStack" -> AcceleratorStage_SECURITY
    [] factory = "createOperationsStack" -> AcceleratorStage_OPERATIONS
    [] factory = "createNetworkPrepStack" -> AcceleratorStage_NETWORK_PREP
    [] factory = "createSecurityResourcesStack" -> AcceleratorStage_SECURITY_RESOURCES
    [] factory = "createNetworkVpcStacks" -> AcceleratorStage_NETWORK_VPC
    [] factory = "createNetworkAssociationsStacks" -> AcceleratorStage_NETWORK_ASSOCIATIONS
    [] factory = "createCustomizationsStacks" -> AcceleratorStage_CUSTOMIZATIONS
    [] OTHER -> "none"

\* The stage whose factory creates the stack.
StageOfStack(id) ==
  IF id.kind \in {"custom", "application"} THEN AcceleratorStage_CUSTOMIZATIONS
  ELSE CASE id.key = AcceleratorStage_DEPENDENCIES -> AcceleratorStage_KEY
         [] id.key = AcceleratorStage_NETWORK_VPC_ENDPOINTS -> AcceleratorStage_NETWORK_VPC
         [] id.key = AcceleratorStage_NETWORK_VPC_DNS -> AcceleratorStage_NETWORK_VPC
         [] id.key = AcceleratorStage_NETWORK_ASSOCIATIONS_GWLB ->
              AcceleratorStage_NETWORK_ASSOCIATIONS
         [] OTHER -> id.key

\* A factory call is made in the step.
Called == calls' = calls + 1

PipelineFactories == {"createPipelineStack", "createTesterStack"}

\* C7: with a context that names no stage, includeStage is false for
\* 'pipeline' and 'tester-pipeline' and true for every other stage whatever
\* the accounts and regions; createPipelineStack and createTesterStack add
\* no stack and every other factory adds the stack of its stage.
C7_FullSynthSkipsPipelines ==
  [][Falsy(context.stage) =>
       /\ \A s \in AcceleratorStages, a \in Accounts \cup {Undefined},
             r \in Regions \cup {Undefined} :
            includeStage(context, [stage |-> s, account |-> a, region |-> r])
              = (s \notin {"pipeline", "tester-pipeline"})
       /\ (Called /\ lastCall'.factory \in PipelineFactories) => app' = app
       /\ (Called /\ lastCall'.factory \notin PipelineFactories) =>
            LET id == StackId(GatingStage(lastCall'.factory), lastCall'.account,
                              lastCall'.region)
            IN id \in app' /\ id \notin app]_vars

\* C7 witness: in a full synth the pipeline factory was called after the
\* logging factory; the app holds the logging stack only.
W_C7_FullSynthPipelineCalled ==
  /\ Falsy(context.stage)
  /\ calls = 2
  /\ lastCall.factory = "createPipelineStack"
  /\ \E a \in Accounts, r \in Regions : app = {StackId(AcceleratorStage_LOGGING, a, r)}

BothUnnamed == Falsy(context.account) /\ Falsy(context.region)
BothNamed == ~Falsy(context.account) /\ ~Falsy(context.region)

\* C8: with a context whose stage is the stack's stage, includeStage is
\* true for every account and region when the context names neither, and,
\* when it names both, true exactly for the context's account and region;
\* with stage LOGGING and no account/region, createLoggingStack adds the
\* logging stack of every account/region it is called with.
C8_StageMatchAccountRegion ==
  [][~Falsy(context.stage) =>
       /\ BothUnnamed =>
            \A a \in Accounts, r \in Regions :
              includeStage(context, [stage |-> context.stage, account |-> a, region |-> r])
       /\ BothNamed =>
            \A a \in Accounts, r \in Regions :
              includeStage(context, [stage |-> context.stage, account |-> a, region |-> r])
                <=> (a = context.account /\ r = context.region)
       /\ ( /\ context.stage = AcceleratorStage_LOGGING
            /\ BothUnnamed
            /\ Called
            /\ lastCall'.factory = "createLoggingStack" ) =>
            LET id == StackId(AcceleratorStage_LOGGING, lastCall'.account, lastCall'.region)
            IN id \in app' /\ id \notin app]_vars

\* C8 witness: stage LOGGING without account/region; logging stacks of two
\* different accounts were created.
W_C8_LoggingEverywhere ==
  /\ context.stage = AcceleratorStage_LOGGING
  /\ BothUnnamed
  /\ \E a1, a2 \in Accounts, r1, r2 \in Regions :
       /\ a1 # a2
       /\ app = {StackId(AcceleratorStage_LOGGING, a1, r1),
                 StackId(AcceleratorStage_LOGGING, a2, r2)}

\* C9: with a context whose stage is set, a factory gated by another stage
\* adds no stack, and every stack of the app belongs to the factory gated
\* by the context's stage.
C9_FactoriesKeyedByStage ==
  [][~Falsy(context.stage) =>
       /\ (Called /\ GatingStage(lastCall'.factory) # context.stage) => app' = app
       /\ \A id \in app' : StageOfStack(id) = context.stage]_vars

\* C9 witness: stage KEY; the key factory added the Key and Dependencies
\* stacks and the logging factory, called next, added nothing.
W_C9_KeyThenLogging ==
  /\ context.stage = AcceleratorStage_KEY
  /\ calls = 2
  /\ lastCall.factory = "createLoggingStack"
  /\ \E a \in Accounts, r \in Regions :
       /\ lastCall.account = a /\ lastCall.region = r
       /\ app = {StackId(AcceleratorStage_KEY, a, r),
                 StackId(AcceleratorStage_DEPENDENCIES, a, r)}

\* The transitive closure of a relation given as a set of pairs.
RECURSIVE Closure(_, _)
Closure(R, n) ==
  IF n = 0 THEN R
  ELSE LET T == Closure(R, n - 1)
       IN T \cup {<<pq[1][1], pq[2][2]>> : pq \in {xy \in T \X T : xy[1][2] = xy[2][1]}}

Acyclic(R) == \A p \in Closure(R, Cardinality(R)) : p[1] # p[2]

\* The orders (positions 1..3) in which three stacks can be deployed so
\* that every stack comes after the stacks it depends on.
DeploymentOrders(S) ==
  {pos \in [S -> 1..Cardinality(S)] :
     /\ \A x, y \in S : x # y => pos[x] # pos[y]
     /\ \A d \in dependencies : (d[1] \in S /\ d[2] \in S) => pos[d[2]] < pos[d[1]]}

\* C10: for every account and region, the VPC, endpoints and DNS stacks are
\* in the app together or not at all; when they are, endpoints depends on
\* VPC and DNS on endpoints, VPC depends on neither, every deployment order
\* that respects the dependencies is VPC, endpoints, DNS, and the
\* dependency relation is acyclic.
C10_VpcEndpointsDnsOrder ==
  /\ Acyclic(dependencies)
  /\ \A a \in Accounts, r \in Regions :
       LET vpcStack == StackId(AcceleratorStage_NETWORK_VPC, a, r)
           endpointsStack == StackId(AcceleratorStage_NETWORK_VPC_ENDPOINTS, a, r)
           dnsStack == StackId(AcceleratorStage_NETWORK_VPC_DNS, a, r)
           three == {vpcStack, endpointsStack, dnsStack}
       IN three \cap app # {} =>
            /\ three \subseteq app
            /\ <<endpointsStack, vpcStack>> \in dependencies
            /\ <<dnsStack, endpointsStack>> \in dependencies
            /\ \A d \in dependencies : d[1] = vpcStack => d[2] \notin three
            /\ DeploymentOrders(three) # {}
            /\ \A pos \in DeploymentOrders(three) :
                 pos[vpcStack] < pos[endpointsStack] /\ pos[endpointsStack] < pos[dnsStack]

\* C10 witness: createNetworkVpcStacks created the three stacks of an
\* account and region.
W_C10_ThreeVpcStacks ==
  /\ lastCall.factory = "createNetworkVpcStacks"
  /\ {StackId(AcceleratorStage_NETWORK_VPC, lastCall.account, lastCall.region),
      StackId(AcceleratorStage_NETWORK_VPC_ENDPOINTS, lastCall.account, lastCall.region),
      StackId(AcceleratorStage_NETWORK_VPC_DNS, lastCall.account, lastCall.region)}
       \subseteq app
  /\ Cardinality(dependencies) >= 2

(***************************************************************************)
(* Properties of createCustomStacks.                                       *)
(***************************************************************************)
\* createCustomStacks has returned for the account and region: it runs
\* inside createCustomizationsStacks, right after the customizations stack
\* is created.
CustomStacksCreated(a, r) ==
  /\ customizationsConfig.hasCloudFormationStacks
  /\ StackId(AcceleratorStage_CUSTOMIZATIONS, a, r) \in app

ImportCalled == calls' = calls + 1 /\ lastCall'.factory = "importAseaResourceStacks"

ImportEnabled ==
  /\ externalLandingZoneResources.present
  /\ externalLandingZoneResources.importExternalLandingZoneResources

ImportStageIncluded(a, r) ==
  \/ includeStage(context, [stage |-> AcceleratorStage_IMPORT_ASEA_RESOURCES,
                            account |-> a, region |-> r])
  \/ includeStage(context, [stage |-> AcceleratorStage_POST_IMPORT_ASEA_RESOURCES,
                            account |-> a, region |-> r])

\* C12: a call made while the import of external landing zone resources is
\* not enabled, or while neither import stage is included for the account
\* and region, adds nothing to the root app, creates no app, instantiates
\* no stack, throws nothing and returns undefined.
C12_GateClosedDoesNothing ==
  [][(ImportCalled /\ (~ImportEnabled
                       \/ ~ImportStageIncluded(lastCall'.account, lastCall'.region)))
       => /\ app' = app
          /\ aseaApps' = aseaApps
          /\ importResult' = ReturnedUndefined]_vars

W_C12_DisabledInImportStage ==
  /\ lastCall.factory = "importAseaResourceStacks"
  /\ importResult = ReturnedUndefined
  /\ externalLandingZoneResources.present
  /\ ~externalLandingZoneResources.importExternalLandingZoneResources
  /\ Len(externalLandingZoneResources.templateMap) = Len(TemplateEntries)
  /\ externalLandingZoneResources.acceleratorPrefix = "ASEA"
  /\ context.stage = AcceleratorStage_IMPORT_ASEA_RESOURCES
  /\ ImportStageIncluded(lastCall.account, lastCall.region)

\* C13: a call that passes the stage/enable test while the template map or
\* the accelerator prefix is missing throws 'Configuration validation
\* failed at runtime.', creates no app with imported stacks and returns no
\* resource mapping; the missing template map is the one reported when both
\* are missing.
C13_MissingConfigThrows ==
  [][(/\ ImportCalled
      /\ ImportGatePasses(context, externalLandingZoneResources,
                          lastCall'.account, lastCall'.region)
      /\ \/ ~externalLandingZoneResources.hasTemplateMap
         \/ Falsy(externalLandingZoneResources.acceleratorPrefix))
       => /\ importResult'.kind = "error"
          /\ importResult'.message = ValidationFailed
          /\ importResult'.resourceMapping = <<>>
          /\ aseaApps' = aseaApps
          /\ importResult'.logged =
               IF ~externalLandingZoneResources.hasTemplateMap
               THEN <<MapFileError>> ELSE <<PrefixError>>]_vars

W_C13_BothMissing ==
  /\ lastCall.factory = "importAseaResourceStacks"
  /\ importResult.kind = "error"
  /\ ~externalLandingZoneResources.hasTemplateMap
  /\ Falsy(externalLandingZoneResources.acceleratorPrefix)
  /\ importResult.logged = <<MapFileError>>
  /\ aseaApps = <<>>

PlaceHolders(children) == {c \in children : c.key = "placeHolder"}

\* C14: a call that passes the stage/enable test leaves the root app with
\* exactly one child 'placeHolder': it adds the stack when the root app has
\* none and adds nothing when it has one, without a duplicate-construct
\* error; a call that does not pass leaves the root app as it was.
C14_OnePlaceHolder ==
  [][ImportCalled =>
       IF ImportGatePasses(context, externalLandingZoneResources,
                           lastCall'.account, lastCall'.region)
       THEN /\ app' = app \cup {PlaceHolder}
            /\ Cardinality(PlaceHolders(app')) = 1
            /\ importResult'.message # DuplicateConstruct
       ELSE app' = app]_vars

W_C14_TwoPassingCalls ==
  /\ calls = 2
  /\ Len(aseaApps) = 2
  /\ aseaApps[1].outdir # aseaApps[2].outdir
  /\ PlaceHolder \in app
  /\ Cardinality(app) = 2

\* C15: a call that returns a resource mapping has created one new app,
\* with outdir cdk.out/phase-<accountId>-<region>, whose stacks all come
\* from template-map entries of the call's account and region; the apps
\* created by earlier calls are untouched and the root app gains at most
\* 'placeHolder'.  Any other call creates no app.
C15_OwnAppPerAccountRegion ==
  [][ImportCalled =>
       IF importResult'.kind = "mapping"
       THEN LET n == Len(aseaApps)
                new == aseaApps'[n + 1]
            IN /\ Len(aseaApps') = n + 1
               /\ SubSeq(aseaApps', 1, n) = aseaApps
               /\ new.outdir = <<"cdk.out/phase-", lastCall'.account, lastCall'.region>>
               /\ \A k \in 1..Len(new.stacks) :
                    /\ new.stacks[k] \in Range(externalLandingZoneResources.templateMap)
                    /\ new.stacks[k].accountId = lastCall'.account
                    /\ new.stacks[k].region = lastCall'.region
               /\ app \subseteq app'
               /\ app' \ app \subseteq {PlaceHolder}
       ELSE aseaApps' = aseaApps]_vars

W_C15_SameNameInTwoApps ==
  /\ Len(aseaApps) = 2
  /\ aseaApps[1].outdir # aseaApps[2].outdir
  /\ Len(externalLandingZoneResources.templateMap) = Len(TemplateEntries)
  /\ \E k \in 1..Len(aseaApps[1].stacks), m \in 1..Len(aseaApps[2].stacks) :
       aseaApps[1].stacks[k].stackName = aseaApps[2].stacks[m].stackName
  /\ StackId(AcceleratorStage_LOGGING, "111111111111", "us-east-1") \in app
====
